---- MODULE Spec2Model ----
(***************************************************************************)
(* Model of src/src/lib.rs: the binary codec of a simplified Bitcoin       *)
(* transaction (CompactSize, Txid, OutPoint, Script, TransactionInput,     *)
(* BitcoinTransaction).                                                    *)
(*                                                                         *)
(* Integers keep their width.  TLC's integers are 32-bit, so a u16 is a    *)
(* number 0..65535 (a "limb"), a u32 is a pair of limbs <<lo, hi>> and a   *)
(* u64 / usize (64-bit target) is four limbs, least significant first.     *)
(* A byte is a number 0..255 and a buffer (&[u8], Vec<u8>) a sequence.     *)
(***************************************************************************)
EXTENDS Integers, Sequences, FiniteSets, TLC

VARIABLES
    value,        \* the value handed to to_bytes / serialize ([type, v])
    encoded,      \* what to_bytes / serialize returned (<<>> before it ran)
    bytes,        \* the buffer handed to from_bytes
    s,            \* the string handed to Txid's Deserialize
    pc,           \* "encode" | "decode" | "tx_inputs" | "done"
    decoder,      \* which from_bytes / deserialize ran ("none" before)
    result,       \* what it returned
    version,      \* BitcoinTransaction::from_bytes: local `version`
    input_count,  \* BitcoinTransaction::from_bytes: local `input_count.value`
    offset,       \* BitcoinTransaction::from_bytes: local `offset`
    inputs        \* BitcoinTransaction::from_bytes: local `inputs`

vars == <<value, encoded, bytes, s, pc, decoder, result,
          version, input_count, offset, inputs>>

----------------------------------------------------------------------------
(* Bounds of the model *)

\* the most inputs a sampled transaction carries
MaxInputs == 2
\* the longest run of arbitrary bytes appended after an encoding
MaxTrail == 2
\* the longest raw buffer enumerated byte by byte
MaxRawLen == 3
\* the longest run of one repeated byte after a marker byte in a raw buffer
MaxRunLen == 9

----------------------------------------------------------------------------
(* Fixed-width integers *)

\* u16::to_le_bytes
u16_to_le_bytes(x) == <<x % 256, x \div 256>>

\* u16::from_le_bytes
u16_from_le_bytes(b) == b[1] + 256 * b[2]

\* u32::to_le_bytes
u32_to_le_bytes(v) == u16_to_le_bytes(v[1]) \o u16_to_le_bytes(v[2])

\* a slip: the four bytes read most significant first (from_be_bytes)
u32_from_be_bytes(b) ==
    <<u16_from_le_bytes(<<b[4], b[3]>>), u16_from_le_bytes(<<b[2], b[1]>>)>>

\* u32::from_le_bytes
u32_from_le_bytes(b) ==
    <<u16_from_le_bytes(<<b[1], b[2]>>), u16_from_le_bytes(<<b[3], b[4]>>)>>

\* u64::to_le_bytes
u64_to_le_bytes(v) ==
    u16_to_le_bytes(v[1]) \o u16_to_le_bytes(v[2]) \o
    u16_to_le_bytes(v[3]) \o u16_to_le_bytes(v[4])

\* u64::from_le_bytes
u64_from_le_bytes(b) ==
    <<u16_from_le_bytes(<<b[1], b[2]>>), u16_from_le_bytes(<<b[3], b[4]>>),
      u16_from_le_bytes(<<b[5], b[6]>>), u16_from_le_bytes(<<b[7], b[8]>>)>>

\* `x as u64` of a u8 or a u16
u16_as_u64(x) == <<x, 0, 0, 0>>

\* `x as u64` of a u32
u32_as_u64(v) == <<v[1], v[2], 0, 0>>

\* `v as u16` of a u64 (truncation)
u64_as_u16(v) == v[1]

\* `v as u32` of a u64 (truncation)
u64_as_u32(v) == <<v[1], v[2]>>

\* a length (bytes.len(), a consumed count) as a 64-bit usize
usize_of(n) == <<n % 65536, n \div 65536, 0, 0>>

\* a <= b on u64
u64_le(a, b) ==
    IF a[4] # b[4] THEN a[4] < b[4]
    ELSE IF a[3] # b[3] THEN a[3] < b[3]
    ELSE IF a[2] # b[2] THEN a[2] < b[2]
    ELSE a[1] <= b[1]

\* a < b on u64
u64_lt(a, b) == ~u64_le(b, a)

\* a + b on usize: the wrapped sum and whether it overflowed
usize_add(a, b) ==
    LET s1 == a[1] + b[1]
        s2 == a[2] + b[2] + (s1 \div 65536)
        s3 == a[3] + b[3] + (s2 \div 65536)
        s4 == a[4] + b[4] + (s3 \div 65536)
    IN  [sum |-> <<s1 % 65536, s2 % 65536, s3 % 65536, s4 % 65536>>,
         overflow |-> s4 \div 65536 > 0]

\* a usize known to be at most a buffer length, as a number
usize_to_nat(v) == v[1] + 65536 * v[2]

----------------------------------------------------------------------------
(* Outcomes of a call *)

Ok(v, n) == [kind |-> "Ok", value |-> v, consumed |-> n]

Err(e) == [kind |-> "Err", err |-> e]

\* the call panics (unwinds or aborts): no Result is returned
Panic(why) == [kind |-> "Panic", why |-> why]

\* &bytes[from..] : the buffer after its first `from` bytes
SliceFrom(b, from) == SubSeq(b, from + 1, Len(b))

\* &bytes[from..to]
Slice(b, from, to) == SubSeq(b, from + 1, to)

----------------------------------------------------------------------------
(* CompactSize *)

CompactSize_new(v) == [value |-> v]

\* a slip: `<` for `<=` at the three width boundaries
CompactSize_to_bytes_exclusive(self) ==
    LET v == self.value IN
    IF u64_lt(v, <<252, 0, 0, 0>>) THEN <<u64_as_u16(v)>>
    ELSE IF u64_lt(v, <<65535, 0, 0, 0>>)
        THEN <<253>> \o u16_to_le_bytes(u64_as_u16(v))
    ELSE IF u64_lt(v, <<65535, 65535, 0, 0>>)
        THEN <<254>> \o u32_to_le_bytes(u64_as_u32(v))
    ELSE <<255>> \o u64_to_le_bytes(v)

CompactSize_to_bytes(self) ==
    LET v == self.value IN
    IF u64_le(v, <<252, 0, 0, 0>>) THEN <<u64_as_u16(v)>>
    ELSE IF u64_le(v, <<65535, 0, 0, 0>>)
        THEN <<253>> \o u16_to_le_bytes(u64_as_u16(v))
    ELSE IF u64_le(v, <<65535, 65535, 0, 0>>)
        THEN <<254>> \o u32_to_le_bytes(u64_as_u32(v))
    ELSE <<255>> \o u64_to_le_bytes(v)

\* a slip: a value that a narrower form could carry is rejected
CompactSize_from_bytes_strict(b) ==
    IF Len(b) = 0 THEN Err("InsufficientBytes")
    ELSE IF b[1] = 253 THEN
        IF Len(b) < 3 THEN Err("InsufficientBytes")
        ELSE IF u16_from_le_bytes(<<b[2], b[3]>>) < 253 THEN Err("InvalidFormat")
        ELSE Ok(CompactSize_new(u16_as_u64(u16_from_le_bytes(<<b[2], b[3]>>))), 3)
    ELSE IF b[1] = 254 THEN
        IF Len(b) < 5 THEN Err("InsufficientBytes")
        ELSE IF b[4] = 0 /\ b[5] = 0 THEN Err("InvalidFormat")
        ELSE Ok(CompactSize_new(
                    u32_as_u64(u32_from_le_bytes(<<b[2], b[3], b[4], b[5]>>))), 5)
    ELSE IF b[1] = 255 THEN
        IF Len(b) < 9 THEN Err("InsufficientBytes")
        ELSE IF b[6] = 0 /\ b[7] = 0 /\ b[8] = 0 /\ b[9] = 0
            THEN Err("InvalidFormat")
        ELSE Ok(CompactSize_new(u64_from_le_bytes(
                    <<b[2], b[3], b[4], b[5], b[6], b[7], b[8], b[9]>>)), 9)
    ELSE Ok(CompactSize_new(u16_as_u64(b[1])), 1)

CompactSize_from_bytes(b) ==
    IF Len(b) = 0 THEN Err("InsufficientBytes")
    ELSE IF b[1] = 253 THEN
        IF Len(b) < 3 THEN Err("InsufficientBytes")
        ELSE Ok(CompactSize_new(u16_as_u64(u16_from_le_bytes(<<b[2], b[3]>>))), 3)
    ELSE IF b[1] = 254 THEN
        IF Len(b) < 5 THEN Err("InsufficientBytes")
        ELSE Ok(CompactSize_new(
                    u32_as_u64(u32_from_le_bytes(<<b[2], b[3], b[4], b[5]>>))), 5)
    ELSE IF b[1] = 255 THEN
        IF Len(b) < 9 THEN Err("InsufficientBytes")
        ELSE Ok(CompactSize_new(u64_from_le_bytes(
                    <<b[2], b[3], b[4], b[5], b[6], b[7], b[8], b[9]>>)), 9)
    ELSE Ok(CompactSize_new(u16_as_u64(b[1])), 1)

----------------------------------------------------------------------------
(* Txid: text form *)

HexDigits ==
    <<"0", "1", "2", "3", "4", "5", "6", "7",
      "8", "9", "a", "b", "c", "d", "e", "f">>

\* hex::encode : two lowercase digits per byte, high nibble first
hex_encode(b) ==
    [i \in 1..(2 * Len(b)) |->
        LET x == b[(i + 1) \div 2]
        IN  IF i % 2 = 1 THEN HexDigits[(x \div 16) + 1]
            ELSE HexDigits[(x % 16) + 1]]

\* hex's val(): the value of one digit, -1 for a character that is none
hex_val(c) ==
    CASE c = "0" -> 0  [] c = "1" -> 1  [] c = "2" -> 2  [] c = "3" -> 3
      [] c = "4" -> 4  [] c = "5" -> 5  [] c = "6" -> 6  [] c = "7" -> 7
      [] c = "8" -> 8  [] c = "9" -> 9
      [] c = "a" -> 10 [] c = "b" -> 11 [] c = "c" -> 12
      [] c = "d" -> 13 [] c = "e" -> 14 [] c = "f" -> 15
      [] c = "A" -> 10 [] c = "B" -> 11 [] c = "C" -> 12
      [] c = "D" -> 13 [] c = "E" -> 14 [] c = "F" -> 15
      [] OTHER -> -1

\* hex::decode : odd length and any non-digit are errors
hex_decode(str) ==
    IF Len(str) % 2 # 0 THEN Err("OddLength")
    ELSE IF \E i \in 1..Len(str) : hex_val(str[i]) = -1
        THEN Err("InvalidHexCharacter")
    ELSE Ok([i \in 1..(Len(str) \div 2) |->
                16 * hex_val(str[2 * i - 1]) + hex_val(str[2 * i])],
            Len(str))

\* impl Serialize for Txid
Txid_serialize(self) == Ok(hex_encode(self), 0)

\* a slip: the decoded length is not checked
Txid_deserialize_any_length(str) ==
    LET d == hex_decode(str) IN
    IF d.kind # "Ok" THEN Err("Custom")
    ELSE Ok(d.value, 0)

\* impl Deserialize for Txid: every failure is a serde custom error
Txid_deserialize(str) ==
    LET d == hex_decode(str) IN
    IF d.kind # "Ok" THEN Err("Custom")
    ELSE IF Len(d.value) = 32 THEN Ok(d.value, 0)
    ELSE Err("Custom")

----------------------------------------------------------------------------
(* OutPoint *)

OutPoint_new(txid, vout) == [txid |-> txid, vout |-> vout]

OutPoint_to_bytes(self) == self.txid \o u32_to_le_bytes(self.vout)

\* a slip: the other error kind for a short buffer
OutPoint_from_bytes_invalid_format(b) ==
    IF Len(b) < 36 THEN Err("InvalidFormat")
    ELSE Ok(OutPoint_new(Slice(b, 0, 32),
                         u32_from_le_bytes(<<b[33], b[34], b[35], b[36]>>)), 36)

OutPoint_from_bytes(b) ==
    IF Len(b) < 36 THEN Err("InsufficientBytes")
    ELSE Ok(OutPoint_new(Slice(b, 0, 32),
                         u32_from_le_bytes(<<b[33], b[34], b[35], b[36]>>)), 36)

----------------------------------------------------------------------------
(* Script *)

Script_new(b) == [bytes |-> b]

Script_to_bytes(self) ==
    CompactSize_to_bytes(CompactSize_new(usize_of(Len(self.bytes)))) \o self.bytes

\* a slip: the buffer is compared with the payload length alone, the prefix
\* forgotten, so a slice past the end of the buffer panics
Script_from_bytes_prefix_forgotten(b, overflow_checks) ==
    LET r == CompactSize_from_bytes(b) IN
    IF r.kind # "Ok" THEN r
    ELSE
        LET size_bytes == r.consumed
            script_len == r.value.value
            end == usize_add(usize_of(size_bytes), script_len)
        IN  IF u64_lt(usize_of(Len(b)), script_len)
                THEN Err("InsufficientBytes")
            ELSE IF end.overflow /\ overflow_checks
                THEN Panic("attempt to add with overflow")
            ELSE IF usize_to_nat(end.sum) > Len(b)
                THEN Panic("range end index out of range")
            ELSE Ok(Script_new(Slice(b, size_bytes, usize_to_nat(end.sum))),
                    usize_to_nat(end.sum))

\* overflow_checks: whether the build panics on integer overflow (debug
\* profile) or wraps (release profile)
Script_from_bytes(b, overflow_checks) ==
    LET r == CompactSize_from_bytes(b) IN
    IF r.kind # "Ok" THEN r
    ELSE
        LET size_bytes == r.consumed
            script_len == r.value.value
            end == usize_add(usize_of(size_bytes), script_len)
        IN  IF end.overflow /\ overflow_checks
                THEN Panic("attempt to add with overflow")
            ELSE IF u64_lt(usize_of(Len(b)), end.sum)
                THEN Err("InsufficientBytes")
            ELSE IF usize_to_nat(end.sum) < size_bytes
                THEN Panic("slice index starts after its end")
            ELSE Ok(Script_new(Slice(b, size_bytes, usize_to_nat(end.sum))),
                    usize_to_nat(end.sum))

----------------------------------------------------------------------------
(* TransactionInput *)

TransactionInput_new(previous_output, script_sig, sequence) ==
    [previous_output |-> previous_output,
     script_sig |-> script_sig,
     sequence |-> sequence]

TransactionInput_to_bytes(self) ==
    OutPoint_to_bytes(self.previous_output) \o
    Script_to_bytes(self.script_sig) \o
    u32_to_le_bytes(self.sequence)

TransactionInput_from_bytes(b, overflow_checks) ==
    LET o == OutPoint_from_bytes(b) IN
    IF o.kind # "Ok" THEN o
    ELSE
        LET outpoint_bytes == o.consumed
            sc == Script_from_bytes(SliceFrom(b, outpoint_bytes), overflow_checks)
        IN  IF sc.kind # "Ok" THEN sc
            ELSE
                LET script_bytes == sc.consumed
                    at == outpoint_bytes + script_bytes
                IN  IF Len(b) < at + 4 THEN Err("InsufficientBytes")
                    ELSE Ok(TransactionInput_new(
                                o.value, sc.value,
                                u32_from_le_bytes(
                                    <<b[at + 1], b[at + 2], b[at + 3], b[at + 4]>>)),
                            at + 4)

----------------------------------------------------------------------------
(* BitcoinTransaction *)

BitcoinTransaction_new(ver, ins, lock_time) ==
    [version |-> ver, inputs |-> ins, lock_time |-> lock_time]

RECURSIVE ConcatInputs(_)
\* the loop of to_bytes: every input's encoding, in order
\* (split in halves to keep the recursion shallow)
ConcatInputs(ins) ==
    IF ins = <<>> THEN <<>>
    ELSE IF Len(ins) = 1 THEN TransactionInput_to_bytes(ins[1])
    ELSE ConcatInputs(SubSeq(ins, 1, Len(ins) \div 2))
            \o ConcatInputs(SubSeq(ins, Len(ins) \div 2 + 1, Len(ins)))

BitcoinTransaction_to_bytes(self) ==
    u32_to_le_bytes(self.version) \o
    CompactSize_to_bytes(CompactSize_new(usize_of(Len(self.inputs)))) \o
    ConcatInputs(self.inputs) \o
    u32_to_le_bytes(self.lock_time)

----------------------------------------------------------------------------
(* The values encoded and the buffers decoded *)

\* n bytes k+1, k+2, ... (mod 256): no two neighbours equal
Ramp(n, k) == [i \in 1..n |-> (k + i) % 256]

\* n bytes x
Const(n, x) == [i \in 1..n |-> x]

\* every sequence over S of length at most n
SeqsUpTo(S, n) == UNION {[1..k -> S] : k \in 0..n}

\* 0, 252, 253, 65535, 65536, 2^32 - 1, 2^32, 2^64 - 1 and values between
U64Samples ==
    {<<a, b, c, d>> : a \in {0, 252, 253, 65535}, b \in {0, 1, 65535},
                      c \in {0, 1, 65535}, d \in {0, 1, 65535}}

\* 1, 0x04030201, 0xFFFFFFFF
U32Samples == {<<1, 0>>, <<513, 1027>>, <<65535, 65535>>}

TxidSamples == {Ramp(32, 0), Ramp(32, 240)}

OutPointSamples ==
    {OutPoint_new(t, v) : t \in TxidSamples, v \in U32Samples}

\* the empty script, AA BB CC, eight FF bytes
ShortScripts ==
    {Script_new(<<>>), Script_new(<<170, 187, 204>>), Script_new(Const(8, 255))}

\* scripts at the 252 / 253 boundary of the length prefix
LongScripts == {Script_new(Const(252, 7)), Script_new(Ramp(253, 0))}

InputEmpty ==
    TransactionInput_new(OutPoint_new(Ramp(32, 0), <<1, 0>>),
                         Script_new(<<>>), <<65535, 65535>>)

InputABC ==
    TransactionInput_new(OutPoint_new(Ramp(32, 240), <<513, 1027>>),
                         Script_new(<<170, 187, 204>>), <<1, 0>>)

InputFF ==
    TransactionInput_new(OutPoint_new(Ramp(32, 100), <<65535, 65535>>),
                         Script_new(Const(8, 255)), <<513, 1027>>)

InputSamples == {InputEmpty, InputABC, InputFF}

TransactionSamples ==
    {BitcoinTransaction_new(h[1], ins, h[2]) :
        h \in {<<<<1, 0>>, <<0, 0>>>>, <<<<513, 1027>>, <<65535, 65535>>>>},
        ins \in SeqsUpTo({InputEmpty, InputFF}, MaxInputs)}

Values ==
    {[type |-> "CompactSize", v |-> CompactSize_new(x)] : x \in U64Samples}
    \cup {[type |-> "OutPoint", v |-> x] : x \in OutPointSamples}
    \cup {[type |-> "Script", v |-> x] : x \in ShortScripts \cup LongScripts}
    \cup {[type |-> "TransactionInput", v |-> x] : x \in InputSamples}
    \cup {[type |-> "BitcoinTransaction", v |-> x] : x \in TransactionSamples}

\* values whose length prefix or input count takes 3 or 5 bytes: scripts of
\* 65535 and 65536 bytes, a transaction of 253 inputs
LargeValues ==
    {[type |-> "Script", v |-> Script_new(Const(65535, 90))],
     [type |-> "Script", v |-> Script_new(Const(65536, 165))],
     [type |-> "BitcoinTransaction",
      v |-> BitcoinTransaction_new(<<1, 0>>, Const(253, InputABC), <<513, 1027>>)]}

\* the to_bytes of the value's own type
ToBytes(val) ==
    CASE val.type = "CompactSize" -> CompactSize_to_bytes(val.v)
      [] val.type = "OutPoint" -> OutPoint_to_bytes(val.v)
      [] val.type = "Script" -> Script_to_bytes(val.v)
      [] val.type = "TransactionInput" -> TransactionInput_to_bytes(val.v)
      [] val.type = "BitcoinTransaction" -> BitcoinTransaction_to_bytes(val.v)

\* b with its i-th element replaced by x
Replace(b, i, x) == [b EXCEPT ![i] = x]

\* the buffers a peer may send in place of the encoding e: e itself, every
\* proper prefix of it, e followed by other bytes, e with one byte changed
Tamperings(e) ==
    {SubSeq(e, 1, n) : n \in 0..Len(e)}
    \cup {e \o x : x \in SeqsUpTo({0, 255}, MaxTrail)}
    \cup {e \o e}
    \cup {Replace(e, i, x) : i \in 1..Len(e), x \in {0, 253, 254, 255}}

\* the same for a large encoding: e, e without its last byte, e and one more
FewTamperings(e) == {e, SubSeq(e, 1, Len(e) - 1), e \o <<0>>}

\* buffers that are no encoding of anything in particular
RawBuffers ==
    SeqsUpTo({0, 1, 253, 254, 255}, MaxRawLen)
    \cup {<<253, 10, 0>>, <<3, 170, 187, 204>>}
    \cup {<<t>> \o Const(k, x) :
            t \in {0, 9, 253, 254, 255}, k \in 0..MaxRunLen, x \in {0, 247, 255}}

\* the upper-case form of a hex digit
Upper(c) ==
    CASE c = "a" -> "A" [] c = "b" -> "B" [] c = "c" -> "C"
      [] c = "d" -> "D" [] c = "e" -> "E" [] c = "f" -> "F"
      [] OTHER -> c

\* the strings handed to Txid's Deserialize in place of the text h
TextTamperings(h) ==
    {SubSeq(h, 1, n) : n \in 0..Len(h)}
    \cup {[i \in 1..Len(h) |-> Upper(h[i])]}
    \cup {h \o x : x \in SeqsUpTo({"0", "g"}, MaxTrail)}
    \cup {h \o h}
    \cup {Replace(h, i, x) : i \in 1..Len(h), x \in {"0", "F", "g", " "}}

----------------------------------------------------------------------------
(* Initial states *)

NoLocals ==
    /\ version = <<0, 0>>
    /\ input_count = <<0, 0, 0, 0>>
    /\ offset = 0
    /\ inputs = <<>>

\* a value is encoded, then a buffer made from its encoding is decoded
InitValue ==
    /\ \/ value \in Values /\ bytes \in Tamperings(ToBytes(value))
       \/ value \in LargeValues /\ bytes \in FewTamperings(ToBytes(value))
    /\ s = <<>>
    /\ pc = "encode"

\* a Txid is serialized, then a string made from its text is deserialized
InitTxid ==
    /\ value \in {[type |-> "Txid", v |-> t] : t \in TxidSamples}
    /\ bytes = <<>>
    /\ s \in TextTamperings(hex_encode(value.v))
    /\ pc = "encode"

\* an arbitrary buffer is decoded
InitRaw ==
    /\ value = [type |-> "None", v |-> <<>>]
    /\ bytes \in RawBuffers
    /\ s = <<>>
    /\ pc = "decode"

Init ==
    /\ InitValue \/ InitTxid \/ InitRaw
    /\ encoded = <<>>
    /\ decoder = "none"
    /\ result = [kind |-> "None"]
    /\ NoLocals

----------------------------------------------------------------------------
(* Encoding *)

Encode(type, out) ==
    /\ pc = "encode"
    /\ value.type = type
    /\ encoded' = out
    /\ pc' = "decode"
    /\ UNCHANGED <<value, bytes, s, decoder, result,
                   version, input_count, offset, inputs>>

CompactSizeToBytes == Encode("CompactSize", CompactSize_to_bytes(value.v))

OutPointToBytes == Encode("OutPoint", OutPoint_to_bytes(value.v))

ScriptToBytes == Encode("Script", Script_to_bytes(value.v))

TransactionInputToBytes ==
    Encode("TransactionInput", TransactionInput_to_bytes(value.v))

BitcoinTransactionToBytes ==
    Encode("BitcoinTransaction", BitcoinTransaction_to_bytes(value.v))

TxidSerialize == Encode("Txid", Txid_serialize(value.v).value)

----------------------------------------------------------------------------
(* Decoding *)

\* a from_bytes that is one call: the call returns (or panics) with r
Decode(name, r) ==
    /\ pc = "decode"
    /\ value.type # "Txid"
    /\ decoder' = name
    /\ result' = r
    /\ pc' = "done"
    /\ UNCHANGED <<value, encoded, bytes, s,
                   version, input_count, offset, inputs>>

CompactSizeFromBytes == Decode("CompactSize", CompactSize_from_bytes(bytes))

OutPointFromBytes == Decode("OutPoint", OutPoint_from_bytes(bytes))

ScriptFromBytes ==
    \E overflow_checks \in BOOLEAN :
        Decode("Script", Script_from_bytes(bytes, overflow_checks))

TransactionInputFromBytes ==
    \E overflow_checks \in BOOLEAN :
        Decode("TransactionInput",
               TransactionInput_from_bytes(bytes, overflow_checks))

TxidDeserialize ==
    /\ pc = "decode"
    /\ value.type = "Txid"
    /\ decoder' = "Txid"
    /\ result' = Txid_deserialize(s)
    /\ pc' = "done"
    /\ UNCHANGED <<value, encoded, bytes, s,
                   version, input_count, offset, inputs>>

\* BitcoinTransaction::from_bytes ends: it returns (or panics) with r
TxReturn(r) ==
    /\ decoder' = "BitcoinTransaction"
    /\ result' = r
    /\ pc' = "done"

\* BitcoinTransaction::from_bytes up to its loop: the length check, the
\* version, the input count
BitcoinTransactionFromBytes ==
    /\ pc = "decode"
    /\ value.type # "Txid"
    /\ IF Len(bytes) < 8
       THEN /\ TxReturn(Err("InsufficientBytes"))
            /\ UNCHANGED <<version, input_count, offset, inputs>>
       ELSE LET c == CompactSize_from_bytes(SliceFrom(bytes, 4)) IN
            IF c.kind # "Ok"
            THEN /\ TxReturn(c)
                 /\ version' = u32_from_le_bytes(Slice(bytes, 0, 4))
                 /\ UNCHANGED <<input_count, offset, inputs>>
            ELSE /\ version' = u32_from_le_bytes(Slice(bytes, 0, 4))
                 /\ input_count' = c.value.value
                 /\ offset' = c.consumed + 4
                 /\ inputs' = <<>>
                 /\ decoder' = "BitcoinTransaction"
                 /\ pc' = "tx_inputs"
                 /\ UNCHANGED result
    /\ UNCHANGED <<value, encoded, bytes, s>>

\* a slip: an input that fails ends the loop (`break`) and the inputs read
\* so far are kept
DecodeInput_break ==
    /\ pc = "tx_inputs"
    /\ u64_lt(usize_of(Len(inputs)), input_count)
    /\ \E overflow_checks \in BOOLEAN :
        LET r == IF offset > Len(bytes)
                 THEN Panic("slice start index out of range")
                 ELSE TransactionInput_from_bytes(SliceFrom(bytes, offset),
                                                  overflow_checks)
        IN  IF r.kind # "Ok"
            THEN /\ input_count' = usize_of(Len(inputs))
                 /\ UNCHANGED <<offset, inputs>>
            ELSE /\ inputs' = Append(inputs, r.value)
                 /\ offset' = offset + r.consumed
                 /\ UNCHANGED input_count
    /\ UNCHANGED <<value, encoded, bytes, s, version, pc, decoder, result>>

\* one turn of `for _ in 0..input_count.value`
DecodeInput ==
    /\ pc = "tx_inputs"
    /\ u64_lt(usize_of(Len(inputs)), input_count)
    /\ \E overflow_checks \in BOOLEAN :
        LET r == IF offset > Len(bytes)
                 THEN Panic("slice start index out of range")
                 ELSE TransactionInput_from_bytes(SliceFrom(bytes, offset),
                                                  overflow_checks)
        IN  IF r.kind # "Ok"
            THEN /\ TxReturn(r)
                 /\ UNCHANGED <<offset, inputs>>
            ELSE /\ inputs' = Append(inputs, r.value)
                 /\ offset' = offset + r.consumed
                 /\ UNCHANGED <<pc, decoder, result>>
    /\ UNCHANGED <<value, encoded, bytes, s, version, input_count>>

\* a slip: the buffer must end with the lock time
DecodeLockTime_exact ==
    /\ pc = "tx_inputs"
    /\ ~u64_lt(usize_of(Len(inputs)), input_count)
    /\ IF Len(bytes) # offset + 4
       THEN TxReturn(Err("InsufficientBytes"))
       ELSE TxReturn(Ok(BitcoinTransaction_new(
                            version, inputs,
                            u32_from_le_bytes(Slice(bytes, offset, offset + 4))),
                        offset + 4))
    /\ UNCHANGED <<value, encoded, bytes, s,
                   version, input_count, offset, inputs>>

\* after the loop: the lock time and the return
DecodeLockTime ==
    /\ pc = "tx_inputs"
    /\ ~u64_lt(usize_of(Len(inputs)), input_count)
    /\ IF Len(bytes) < offset + 4
       THEN TxReturn(Err("InsufficientBytes"))
       ELSE TxReturn(Ok(BitcoinTransaction_new(
                            version, inputs,
                            u32_from_le_bytes(Slice(bytes, offset, offset + 4))),
                        offset + 4))
    /\ UNCHANGED <<value, encoded, bytes, s,
                   version, input_count, offset, inputs>>

Next ==
    \/ CompactSizeToBytes
    \/ OutPointToBytes
    \/ ScriptToBytes
    \/ TransactionInputToBytes
    \/ BitcoinTransactionToBytes
    \/ TxidSerialize
    \/ CompactSizeFromBytes
    \/ OutPointFromBytes
    \/ ScriptFromBytes
    \/ TransactionInputFromBytes
    \/ BitcoinTransactionFromBytes
    \/ DecodeInput
    \/ DecodeLockTime
    \/ TxidDeserialize

Spec == Init /\ [][Next]_vars

----------------------------------------------------------------------------
(* Properties *)

BinaryDecoders ==
    {"CompactSize", "OutPoint", "Script", "TransactionInput", "BitcoinTransaction"}

\* the call of `name`'s from_bytes has ended
Returned(name) == pc = "done" /\ decoder = name

\* b without its last byte
DropLast(b) == SubSeq(b, 1, Len(b) - 1)

\* a is the start of b
IsPrefix(a, b) == Len(a) <= Len(b) /\ SubSeq(b, 1, Len(a)) = a

\* the limbs of the little-endian number in b[from .. from + 2 * n - 1]
LimbsAt(b, from, n) ==
    [j \in 1..n |-> b[from + 2 * (j - 1)] + 256 * b[from + 2 * (j - 1) + 1]]

\* v with its upper limbs, from the (n+1)-th on, all zero
FitsLimbs(v, n) == \A j \in (n + 1)..4 : v[j] = 0

\* C1: decoding the encoding of a transaction returns that transaction and
\* the length of the encoding
C1_RoundTrip ==
    (Returned("BitcoinTransaction") /\ value.type = "BitcoinTransaction"
        /\ bytes = encoded)
    => result = Ok(value.v, Len(encoded))

C1_Witness ==
    /\ Returned("BitcoinTransaction")
    /\ value.type = "BitcoinTransaction"
    /\ bytes = encoded
    /\ Len(value.v.inputs) = 2
    /\ value.v.inputs[2].script_sig.bytes # <<>>
    /\ result.kind = "Ok"

\* C2: CompactSize::to_bytes gives the one byte v up to 252, 0xFD and 2
\* little-endian bytes up to 65535, 0xFE and 4 up to 2^32 - 1, 0xFF and 8
\* above that
C2_MinimalWidth ==
    (pc # "encode" /\ value.type = "CompactSize") =>
        LET v == value.v.value
            e == encoded
        IN  /\ \A i \in 1..Len(e) : e[i] \in 0..255
            /\ (FitsLimbs(v, 1) /\ v[1] <= 252) => e = <<v[1]>>
            /\ (FitsLimbs(v, 1) /\ v[1] >= 253) =>
                    Len(e) = 3 /\ e[1] = 253 /\ LimbsAt(e, 2, 1) = <<v[1]>>
            /\ (FitsLimbs(v, 2) /\ ~FitsLimbs(v, 1)) =>
                    Len(e) = 5 /\ e[1] = 254 /\ LimbsAt(e, 2, 2) = <<v[1], v[2]>>
            /\ ~FitsLimbs(v, 2) =>
                    Len(e) = 9 /\ e[1] = 255 /\ LimbsAt(e, 2, 4) = v

C2_Witness ==
    /\ pc # "encode"
    /\ value.type = "CompactSize"
    /\ value.v.value = <<0, 0, 1, 0>>
    /\ Len(encoded) = 9

\* C3: CompactSize::from_bytes looks at the first byte and the length only:
\* empty fails, a byte below 0xFD is the value, 0xFD / 0xFE / 0xFF need 3 / 5
\* / 9 bytes and give the next 2 / 4 / 8 bytes little-endian; a non-minimal
\* encoding is accepted
C3_DecodeByMarker ==
    Returned("CompactSize") =>
        LET b == bytes
            w == IF Len(b) = 0 THEN 0
                 ELSE IF b[1] = 253 THEN 3
                 ELSE IF b[1] = 254 THEN 5
                 ELSE IF b[1] = 255 THEN 9
                 ELSE 1
        IN  IF Len(b) < w \/ Len(b) = 0
            THEN result = Err("InsufficientBytes")
            ELSE /\ result.kind = "Ok"
                 /\ result.consumed = w
                 /\ w = 1 => result.value.value = <<b[1], 0, 0, 0>>
                 /\ w > 1 =>
                        /\ FitsLimbs(result.value.value, (w - 1) \div 2)
                        /\ LimbsAt(b, 2, (w - 1) \div 2)
                            = SubSeq(result.value.value, 1, (w - 1) \div 2)

\* the non-minimal 0xFD 0x0A 0x00 is decoded as 10
C3_Witness ==
    /\ Returned("CompactSize")
    /\ bytes = <<253, 10, 0>>
    /\ result = Ok(CompactSize_new(<<10, 0, 0, 0>>), 3)

\* C4: an encoding without its last byte fails with InsufficientBytes in the
\* from_bytes of its own type
C4_Truncation ==
    (pc = "done" /\ decoder = value.type /\ decoder \in BinaryDecoders
        /\ bytes = DropLast(encoded))
    => result = Err("InsufficientBytes")

C4_Witness ==
    /\ Returned("Script")
    /\ value.type = "Script"
    /\ Len(value.v.bytes) = 253
    /\ bytes = DropLast(encoded)
    /\ result.kind = "Err"

\* C5: every from_bytes returns, for every buffer, a value with a consumed
\* count within the buffer or one of the two errors, and nothing else
C5_Total ==
    (pc = "done" /\ decoder \in BinaryDecoders) =>
        \/ result.kind = "Ok" /\ result.consumed <= Len(bytes)
        \/ result.kind = "Err"
            /\ result.err \in {"InsufficientBytes", "InvalidFormat"}

\* C6: bytes after the encoding of a transaction change nothing: the same
\* transaction and the same consumed count come back
C6_TrailingIgnored ==
    (Returned("BitcoinTransaction") /\ value.type = "BitcoinTransaction"
        /\ IsPrefix(encoded, bytes))
    => result = Ok(value.v, Len(encoded))

C6_Witness ==
    /\ Returned("BitcoinTransaction")
    /\ value.type = "BitcoinTransaction"
    /\ IsPrefix(encoded, bytes)
    /\ Len(bytes) >= 2 * Len(encoded)
    /\ Len(value.v.inputs) >= 1
    /\ result.kind = "Ok"

HexChars ==
    {"0", "1", "2", "3", "4", "5", "6", "7", "8", "9",
     "a", "b", "c", "d", "e", "f", "A", "B", "C", "D", "E", "F"}

LowerHexChars ==
    {"0", "1", "2", "3", "4", "5", "6", "7", "8", "9",
     "a", "b", "c", "d", "e", "f"}

\* the string is not 64 characters long or holds a character that is no
\* hex digit
BadTxidText(str) ==
    Len(str) # 64 \/ \E i \in 1..Len(str) : str[i] \notin HexChars

\* what C8 says of a Txid in text form, with `failure` the error of a string
\* that is no 64 hex digits
TxidText(failure) ==
    Returned("Txid") =>
        /\ Len(encoded) = 64
        /\ \A i \in 1..64 : encoded[i] \in LowerHexChars
        /\ s = encoded => result.kind = "Ok" /\ result.value = value.v
        /\ BadTxidText(s) => result = Err(failure)

\* C8 as amended: a Txid serializes to 64 lowercase hex digits, which
\* deserialize to the same 32 bytes; a string that is not 64 characters long
\* or holds a non-hex character fails with a serde custom error
C8_TextRoundTrip == TxidText("Custom")

\* C8 as stated: ... fails with InvalidFormat
C8_AsStated == TxidText("InvalidFormat")

C8_Witness ==
    /\ Returned("Txid")
    /\ Len(s) = 64
    /\ \E i \in 1..64 : s[i] = "g"
    /\ result.kind = "Err"

\* C9: Script::from_bytes, after a prefix of length L in S bytes, fails with
\* InsufficientBytes when the buffer holds fewer than S + L bytes (the sum
\* taken in the 64-bit word) and otherwise returns the L bytes after the
\* prefix with S + L consumed
C9_DeclaredLength ==
    (Returned("Script") /\ CompactSize_from_bytes(bytes).kind = "Ok") =>
        LET S == CompactSize_from_bytes(bytes).consumed
            L == CompactSize_from_bytes(bytes).value.value
            end == usize_add(usize_of(S), L).sum
        IN  IF u64_lt(usize_of(Len(bytes)), end)
            THEN result = Err("InsufficientBytes")
            ELSE /\ result.kind = "Ok"
                 /\ usize_of(Len(result.value.bytes)) = L
                 /\ usize_of(result.consumed) = end
                 /\ result.value.bytes
                        = SubSeq(bytes, S + 1, S + Len(result.value.bytes))

RECURSIVE Sum(_)
Sum(q) == IF q = <<>> THEN 0 ELSE Head(q) + Sum(Tail(q))

RECURSIVE InputsFrom(_, _, _, _, _)
\* the inputs k+1 .. n read one after another from position off of b: the
\* first outcome that is no input, or the inputs and what each consumed
InputsFrom(b, off, k, n, overflow_checks) ==
    IF ~u64_lt(usize_of(k), n) THEN Ok(<<>>, <<>>)
    ELSE
        LET r == TransactionInput_from_bytes(SliceFrom(b, off), overflow_checks)
        IN  IF r.kind # "Ok" THEN r
            ELSE
                LET rest == InputsFrom(b, off + r.consumed, k + 1, n,
                                       overflow_checks)
                IN  IF rest.kind # "Ok" THEN rest
                    ELSE Ok(<<r.value>> \o rest.value,
                            <<r.consumed>> \o rest.consumed)

\* the result of a transaction decode that got to its input count
CountExact ==
    (Returned("BitcoinTransaction") /\ Len(bytes) >= 8
        /\ CompactSize_from_bytes(SliceFrom(bytes, 4)).kind = "Ok") =>
        LET c == CompactSize_from_bytes(SliceFrom(bytes, 4))
            n == c.value.value
        IN  \E overflow_checks \in BOOLEAN :
                LET w == InputsFrom(bytes, 4 + c.consumed, 0, n, overflow_checks)
                IN  IF w.kind # "Ok" THEN result = w
                    ELSE IF Len(bytes) < 4 + c.consumed + Sum(w.consumed) + 4
                        THEN result = Err("InsufficientBytes")
                    ELSE /\ result.kind = "Ok"
                         /\ usize_of(Len(result.value.inputs)) = n
                         /\ result.value.inputs = w.value
                         /\ result.consumed
                                = 4 + c.consumed + Sum(w.consumed) + 4

\* a step of the decode keeps the inputs read so far, adds at most one, and
\* never moves the offset back; a call that ends without a transaction ends
\* with the outcome of the step that failed
ForwardOnly ==
    /\ offset' >= offset
    /\ IsPrefix(inputs, inputs')
    /\ Len(inputs') <= Len(inputs) + 1
    /\ Len(inputs') = Len(inputs) + 1 => offset' > offset
    /\ (pc = "tx_inputs" /\ pc' = "done" /\ result'.kind = "Ok") =>
            /\ result'.value.inputs = inputs
            /\ usize_of(Len(inputs)) = input_count

\* C10: a transaction decode reads the declared count n, then inputs one
\* after another at an offset that only moves forward; on success it returns
\* exactly n inputs in buffer order and 4 + prefix width + the inputs' bytes
\* + 4 consumed; when an input or the lock time fails, the call returns that
\* failure and no transaction
C10_AllOrNothing == [](CountExact) /\ [][ForwardOnly]_vars

\* the second input fails after the first was read
C10_Witness ==
    /\ Returned("BitcoinTransaction")
    /\ Len(inputs) = 1
    /\ u64_lt(usize_of(1), input_count)
    /\ result = Err("InsufficientBytes")

====
